---- MODULE Spec2Model ----
(***************************************************************************)
(* assessRecaptchaToken (src/index.ts): one outbound POST to the           *)
(* reCAPTCHA Enterprise assessment endpoint, and the translation of the    *)
(* transport's outcome into a RecaptchaAssessmentResponse.                 *)
(*                                                                         *)
(* A text (a request or response body) is a sequence of lexemes, a JSON    *)
(* value is a tagged tree; JSON.stringify and JSON.parse convert between   *)
(* the two.  Numbers are held in tenths, so that a score of 0.9 is exact.  *)
(***************************************************************************)
EXTENDS FiniteSets, Integers, Sequences, TLC

(* ------------------------------ bounds --------------------------------- *)

\* number of invocations that may be in flight together
NumCalls == 3

\* every sequence of at most MaxBodyLen lexemes of Alphabet is a response body
MaxBodyLen == 3

(* ---------------------------- JSON values ------------------------------ *)

Value(kind, num, str, kids) ==
    [kind |-> kind, num |-> num, str |-> str, kids |-> kids]

Member(k, v) == [k |-> k, v |-> v]

\* the value of a promise that has not settled
Undefined == Value("undefined", 0, "", <<>>)

JNull == Value("null", 0, "", <<>>)

JBool(b) == Value(IF b THEN "true" ELSE "false", 0, "", <<>>)

\* a number, given in tenths
JNumber(tenths) == Value("num", tenths, "", <<>>)

JString(s) == Value("str", 0, s, <<>>)

\* members: a sequence of Member(key, value), in insertion order
JObject(members) == Value("obj", 0, "", members)

\* elems: a sequence of Member("", value)
JArray(elems) == Value("arr", 0, "", elems)

Keys(v) == {v.kids[n].k : n \in 1..Len(v.kids)}

HasKey(v, k) == v.kind = "obj" /\ k \in Keys(v)

Get(v, k) == v.kids[CHOOSE n \in 1..Len(v.kids) : v.kids[n].k = k].v

(* ------------------------------- texts --------------------------------- *)

Lex(t, s) == [t |-> t, s |-> s]

LBrace == Lex("{", "")
RBrace == Lex("}", "")
LBracket == Lex("[", "")
RBracket == Lex("]", "")
Colon == Lex(":", "")
Comma == Lex(",", "")
Ws == Lex("ws", " ")
LNull == Lex("lit", "null")
LTrue == Lex("lit", "true")
LFalse == Lex("lit", "false")
LNum(s) == Lex("num", s)
LStr(s) == Lex("str", s)
\* characters that begin no JSON token
LBad(s) == Lex("bad", s)

\* the number texts the parser meets, each with its value in tenths
NumberForms ==
    { <<"0", 0>>, <<"0.1", 1>>, <<"0.9", 9>>, <<"0.90", 9>>, <<"9e-1", 9>>,
      <<"1", 10>>, <<"1.0", 10>>, <<"400", 4000>>, <<"500", 5000>> }

NumberValue(s) == (CHOOSE f \in NumberForms : f[1] = s)[2]

\* the shortest text of a number, as JSON.stringify writes it
NumberText(tenths) ==
    CASE tenths = 0 -> "0"
      [] tenths = 1 -> "0.1"
      [] tenths = 9 -> "0.9"
      [] tenths = 10 -> "1"
      [] tenths = 4000 -> "400"
      [] tenths = 5000 -> "500"

(* ---------------------------- JSON.parse ------------------------------- *)

Fail == [ok |-> FALSE, val |-> Undefined, pos |-> 0]

Done(v, p) == [ok |-> TRUE, val |-> v, pos |-> p]

RECURSIVE SkipWs(_, _)
SkipWs(txt, p) ==
    IF p <= Len(txt) /\ txt[p].t = "ws" THEN SkipWs(txt, p + 1) ELSE p

At(txt, p, t) == p <= Len(txt) /\ txt[p].t = t

\* a repeated key keeps its first position and takes the last value
Put(members, k, v) ==
    IF \E n \in 1..Len(members) : members[n].k = k
    THEN [n \in 1..Len(members) |->
            IF members[n].k = k THEN Member(k, v) ELSE members[n]]
    ELSE Append(members, Member(k, v))

RECURSIVE ParseValue(_, _)
RECURSIVE ParseMembers(_, _, _)
RECURSIVE ParseElements(_, _, _)

ParseValue(txt, p0) ==
    LET p == SkipWs(txt, p0) IN
    IF p > Len(txt) THEN Fail
    ELSE CASE txt[p].t = "lit" ->
                Done(IF txt[p].s = "null" THEN JNull
                     ELSE JBool(txt[p].s = "true"), p + 1)
           [] txt[p].t = "num" -> Done(JNumber(NumberValue(txt[p].s)), p + 1)
           [] txt[p].t = "str" -> Done(JString(txt[p].s), p + 1)
           [] txt[p].t = "{" ->
                LET q == SkipWs(txt, p + 1) IN
                IF At(txt, q, "}") THEN Done(JObject(<<>>), q + 1)
                ELSE ParseMembers(txt, q, <<>>)
           [] txt[p].t = "[" ->
                LET q == SkipWs(txt, p + 1) IN
                IF At(txt, q, "]") THEN Done(JArray(<<>>), q + 1)
                ELSE ParseElements(txt, q, <<>>)
           [] OTHER -> Fail

ParseMembers(txt, p0, acc) ==
    LET p == SkipWs(txt, p0)
        c == SkipWs(txt, p + 1)
    IN  IF ~(At(txt, p, "str") /\ At(txt, c, ":")) THEN Fail
        ELSE LET r == ParseValue(txt, c + 1) IN
             IF ~r.ok THEN Fail
             ELSE LET q == SkipWs(txt, r.pos)
                      members == Put(acc, txt[p].s, r.val)
                  IN  CASE At(txt, q, ",") -> ParseMembers(txt, q + 1, members)
                        [] At(txt, q, "}") -> Done(JObject(members), q + 1)
                        [] OTHER -> Fail

ParseElements(txt, p0, acc) ==
    LET r == ParseValue(txt, p0) IN
    IF ~r.ok THEN Fail
    ELSE LET q == SkipWs(txt, r.pos)
             elems == Append(acc, Member("", r.val))
         IN  CASE At(txt, q, ",") -> ParseElements(txt, q + 1, elems)
               [] At(txt, q, "]") -> Done(JArray(elems), q + 1)
               [] OTHER -> Fail

\* JSON.parse(text): ok is FALSE where it throws a SyntaxError
JSONParse(txt) ==
    LET r == ParseValue(txt, 1) IN
    IF r.ok /\ SkipWs(txt, r.pos) = Len(txt) + 1
    THEN [ok |-> TRUE, val |-> r.val]
    ELSE [ok |-> FALSE, val |-> Undefined]

(* -------------------------- JSON.stringify ----------------------------- *)

RECURSIVE JSONStringify(_)
RECURSIVE StringifyKids(_, _, _)

\* the members (or elements) from the n-th on, separated by commas
StringifyKids(kids, n, withKeys) ==
    IF n > Len(kids) THEN <<>>
    ELSE (IF n > 1 THEN <<Comma>> ELSE <<>>)
         \o (IF withKeys THEN <<LStr(kids[n].k), Colon>> ELSE <<>>)
         \o JSONStringify(kids[n].v)
         \o StringifyKids(kids, n + 1, withKeys)

JSONStringify(v) ==
    CASE v.kind = "obj" ->
            <<LBrace>> \o StringifyKids(v.kids, 1, TRUE) \o <<RBrace>>
      [] v.kind = "arr" ->
            <<LBracket>> \o StringifyKids(v.kids, 1, FALSE) \o <<RBracket>>
      [] v.kind = "str" -> <<LStr(v.str)>>
      [] v.kind = "num" -> <<LNum(NumberText(v.num))>>
      [] OTHER -> <<Lex("lit", v.kind)>>

(* ------------------------- the result shapes --------------------------- *)

\* { error: { code, message } }
ErrorShape(code, message) ==
    JObject(<<Member("error",
                     JObject(<<Member("code", JNumber(code * 10)),
                               Member("message", JString(message))>>))>>)

\* how the promise of an invocation settles
Fulfilled(v) == [settled |-> "fulfilled", value |-> v]

Rejected(v) == [settled |-> "rejected", value |-> v]

EmptyMessage == "Empty response from reCAPTCHA API"

InvalidJSONMessage == "Invalid JSON response from reCAPTCHA API"

FallbackMessage == "Failed to assess recaptcha token"

\* what JSON.parse throws
SyntaxError == [isError |-> TRUE, message |-> "Unexpected token in JSON"]

(* --------------------------- the request ------------------------------- *)

BuildURL(a) ==
    "https://recaptchaenterprise.googleapis.com/v1/projects/" \o a.projectId
        \o "/assessments?key=" \o a.api_token

\* variant of BuildBody: an empty token is left out of the event
BuildBodyOmitEmpty(a) ==
    JSONStringify(
        JObject(<<Member("event",
                         JObject((IF a.token = "" THEN <<>>
                                  ELSE <<Member("token", JString(a.token))>>)
                                 \o <<Member("siteKey", JString(a.siteKey)),
                                      Member("expectedAction",
                                             JString(a.expectedAction))>>))>>))

BuildBody(a) ==
    JSONStringify(
        JObject(<<Member("event",
                         JObject(<<Member("token", JString(a.token)),
                                   Member("siteKey", JString(a.siteKey)),
                                   Member("expectedAction",
                                          JString(a.expectedAction))>>))>>))

BuildRequest(a) ==
    [url |-> BuildURL(a),
     method |-> "POST",
     headers |-> {<<"Content-Type", "application/json">>},
     body |-> BuildBody(a)]

(* ------------------------ the translation steps ------------------------ *)

\* variant of Ok: a redirection counts as a success
OkBelow400(res) == res.status < 400

\* res.ok of the Fetch API: the status is in the range 200-299
Ok(res) == res.status \in 200..299

\* variant of Falsy: the empty text is not told apart
NeverFalsy(txt) == FALSE

\* !text
Falsy(txt) == Len(txt) = 0

HttpError(res) ==
    Fulfilled(ErrorShape(res.status, "HTTP error: " \o res.statusText))

EmptyResponse == Fulfilled(ErrorShape(500, EmptyMessage))

\* variant of Caught: the exception leaves the function
Uncaught(err) == Rejected(JString(err.message))

\* the outer catch
Caught(err) ==
    Fulfilled(ErrorShape(500, IF err.isError THEN err.message
                              ELSE FallbackMessage))

\* variant of ParseOrInvalid: the SyntaxError reaches the outer catch
ParseUnguarded(txt) ==
    LET r == JSONParse(txt) IN
    IF r.ok THEN Fulfilled(r.val) ELSE Caught(SyntaxError)

\* variant of ParseOrInvalid: an absent riskAnalysis is given a score of 0
ParseDefaulted(txt) ==
    LET r == JSONParse(txt) IN
    IF ~r.ok THEN Fulfilled(ErrorShape(500, InvalidJSONMessage))
    ELSE IF r.val.kind = "obj" /\ ~HasKey(r.val, "riskAnalysis")
         THEN Fulfilled(JObject(Append(r.val.kids,
                  Member("riskAnalysis",
                         JObject(<<Member("score", JNumber(0))>>)))))
         ELSE Fulfilled(r.val)

\* the inner try/catch around JSON.parse

ParseOrInvalid(txt) ==
    LET r == JSONParse(txt) IN
    IF r.ok THEN Fulfilled(r.val)
    ELSE Fulfilled(ErrorShape(500, InvalidJSONMessage))

(* ----------------------------- the inputs ------------------------------ *)

\* the five fields; no value is validated, so empty and odd ones are drawn
ArgSets ==
    [token : {"tok1", ""},
     siteKey : {"site1"},
     expectedAction : {"login", "log in?"},
     api_token : {"key1"},
     projectId : {"proj1", "a/b?c"}]

SmallArgSets ==
    [token : {"tok1", ""},
     siteKey : {"site1"},
     expectedAction : {"login"},
     api_token : {"key1"},
     projectId : {"proj1"}]

\* what fetch or res.text() may throw: an Error, an Error with no message,
\* an object that is no Error, and undefined
Errors ==
    { [isError |-> TRUE, message |-> "fetch failed"],
      [isError |-> TRUE, message |-> ""],
      [isError |-> FALSE, message |-> "timeout"],
      [isError |-> FALSE, message |-> ""] }

SmallErrors == { [isError |-> TRUE, message |-> "fetch failed"] }

Statuses == {200, 201, 299, 300, 404, 500}

ReasonPhrase(status) ==
    CASE status = 200 -> "OK"
      [] status = 201 -> "Created"
      [] status = 300 -> "Multiple Choices"
      [] status = 404 -> "Not Found"
      [] status = 500 -> "Internal Server Error"
      [] OTHER -> ""

\* over HTTP/2 the status text is empty
Responses ==
    UNION { { [status |-> st, statusText |-> ReasonPhrase(st)],
              [status |-> st, statusText |-> ""] } : st \in Statuses }

SmallResponses ==
    { [status |-> 200, statusText |-> "OK"],
      [status |-> 404, statusText |-> "Not Found"] }

\* the values of the success shape that the remote service answers with, each
\* with its text (v: the value, t: the text a serializer writes for it)
Form(v, t) == [v |-> v, t |-> t]

Field(k, f) == [k |-> k, v |-> f.v, t |-> f.t]

\* the object of at most three fields, and its text
ObjectForm(fields) ==
    LET item(n) ==
            IF n > Len(fields) THEN <<>>
            ELSE (IF n > 1 THEN <<Comma>> ELSE <<>>)
                 \o <<LStr(fields[n].k), Colon>> \o fields[n].t
    IN  Form(JObject([n \in 1..Len(fields) |->
                         Member(fields[n].k, fields[n].v)]),
             <<LBrace>> \o item(1) \o item(2) \o item(3) \o <<RBrace>>)

TrueForm == Form(JBool(TRUE), <<LTrue>>)

FalseForm == Form(JBool(FALSE), <<LFalse>>)

StringForm(s) == Form(JString(s), <<LStr(s)>>)

TokenPropertiesForms ==
    { ObjectForm(<<Field("valid", TrueForm)>>),
      ObjectForm(<<Field("valid", TrueForm),
                   Field("action", StringForm("login"))>>),
      ObjectForm(<<Field("valid", FalseForm),
                   Field("action", StringForm("login")),
                   Field("createTime", StringForm("2026-01-01T00:00:00Z"))>>) }

RiskAnalysisForms ==
    { ObjectForm(<<Field("score", Form(JNumber(9), <<LNum("0.9")>>))>>),
      ObjectForm(<<Field("score", Form(JNumber(10), <<LNum("1")>>)),
                   Field("reasons",
                         Form(JArray(<<Member("", JString("AUTOMATION"))>>),
                              <<LBracket, LStr("AUTOMATION"), RBracket>>))>>) }

EventForms ==
    { ObjectForm(<<Field("token", StringForm("tok1")),
                   Field("siteKey", StringForm("site1")),
                   Field("expectedAction", StringForm("login"))>>) }

Optional(key, forms) == {<<>>} \cup {<<Field(key, f)>> : f \in forms}

\* each of the three fields present or not
SuccessForms ==
    { ObjectForm(tp \o ra \o ev) :
        tp \in Optional("tokenProperties", TokenPropertiesForms),
        ra \in Optional("riskAnalysis", RiskAnalysisForms),
        ev \in Optional("event", EventForms) }

\* the same text with white space around every token
Pretty(txt) ==
    <<Ws>> \o [n \in 1..(2 * Len(txt)) |->
                 IF n % 2 = 1 THEN txt[(n + 1) \div 2] ELSE Ws]

\* the same number written another way
Respell(lexeme) ==
    CASE lexeme = LNum("0.9") -> LNum("9e-1")
      [] lexeme = LNum("1") -> LNum("1.0")
      [] OTHER -> lexeme

\* the same text with its numbers written another way
Respelled(txt) ==
    SubSeq([n \in 1..Len(txt) |-> Respell(txt[n])], 1, Len(txt))

\* the texts a serializer may send for a value: compact, indented, or with
\* its numbers in another spelling
Rendering(f, style) ==
    Form(f.v, CASE style = 1 -> f.t
                [] style = 2 -> Pretty(f.t)
                [] style = 3 -> Respelled(f.t))

RenderedForms == {Rendering(f, style) : f \in SuccessForms, style \in 1..3}

SuccessBodies == {f.t : f \in RenderedForms}

ScenarioValue ==
    JObject(<<Member("tokenProperties",
                     JObject(<<Member("valid", JBool(TRUE)),
                               Member("action", JString("login"))>>)),
              Member("riskAnalysis",
                     JObject(<<Member("score", JNumber(9))>>))>>)

\* an upstream error body that also carries a success field
MixedBody ==
    JSONStringify(JObject(<<Member("error",
                                   JObject(<<Member("code", JNumber(4000)),
                                             Member("message",
                                                    JString("bad"))>>)),
                            Member("event", JObject(<<>>))>>))

NamedBodies ==
    { <<>>, <<Ws>>, <<Ws, Ws>>, <<LBad("not-json"), LBrace>>,
      <<LNull>>, <<LNum("0.90")>>, <<LStr("ok")>>, <<LTrue>>,
      <<LBracket, RBracket>>, <<LBracket, LNum("1"), Comma, RBracket>>,
      <<LBrace, LStr("event"), Colon, LNull, Comma,
        LStr("event"), Colon, LTrue, RBrace>>,
      MixedBody }

Alphabet == {LBrace, RBrace, Colon, Comma, Ws, LStr("error"), LNull}

ShortBodies == UNION {[1..n -> Alphabet] : n \in 0..MaxBodyLen}

Bodies == SuccessBodies \cup NamedBodies \cup ShortBodies

SmallBodies ==
    { <<>>, <<LBad("not-json"), LBrace>>, JSONStringify(ScenarioValue) }

(* ------------------------------ the state ------------------------------ *)

Calls == 1..NumCalls

NoArgs ==
    [token |-> "", siteKey |-> "", expectedAction |-> "", api_token |-> "",
     projectId |-> ""]

NoRequest == [url |-> "", method |-> "", headers |-> {}, body |-> <<>>]

NoResponse == [status |-> 0, statusText |-> ""]

NoThrow == [at |-> "none", isError |-> FALSE, message |-> ""]

Thrown(at, err) ==
    [at |-> at, isError |-> err.isError, message |-> err.message]

VARIABLES
    pc,          \* where each invocation is: idle, awaitFetch, awaitText, done
    args,        \* the object it was called with
    request,     \* what it passed to fetch
    fetchCalls,  \* how many times it called fetch
    response,    \* res: what fetch resolved to
    textReads,   \* how many times it called res.text()
    text,        \* what res.text() resolved to
    parseCalls,  \* how many times it called JSON.parse
    thrown,      \* what fetch or res.text() threw
    settled,     \* its promise: pending, fulfilled or rejected
    result       \* the value its promise settled with

vars ==
    <<pc, args, request, fetchCalls, response, textReads, text, parseCalls,
      thrown, settled, result>>

Init ==
    /\ pc = [i \in Calls |-> "idle"]
    /\ args = [i \in Calls |-> NoArgs]
    /\ request = [i \in Calls |-> NoRequest]
    /\ fetchCalls = [i \in Calls |-> 0]
    /\ response = [i \in Calls |-> NoResponse]
    /\ textReads = [i \in Calls |-> 0]
    /\ text = [i \in Calls |-> <<>>]
    /\ parseCalls = [i \in Calls |-> 0]
    /\ thrown = [i \in Calls |-> NoThrow]
    /\ settled = [i \in Calls |-> "pending"]
    /\ result = [i \in Calls |-> Undefined]

\* return from the function: the promise settles
Return(i, outcome) ==
    /\ pc' = [pc EXCEPT ![i] = "done"]
    /\ settled' = [settled EXCEPT ![i] = outcome.settled]
    /\ result' = [result EXCEPT ![i] = outcome.value]

\* the call: the request is built and handed to fetch
Invoke(i, A) ==
    /\ pc[i] = "idle"
    /\ \E a \in A :
        /\ args' = [args EXCEPT ![i] = a]
        /\ request' = [request EXCEPT ![i] = BuildRequest(a)]
    /\ fetchCalls' = [fetchCalls EXCEPT ![i] = @ + 1]
    /\ pc' = [pc EXCEPT ![i] = "awaitFetch"]
    /\ UNCHANGED <<response, textReads, text, parseCalls, thrown, settled,
                   result>>

\* fetch rejects
FetchReject(i, E) ==
    /\ pc[i] = "awaitFetch"
    /\ \E err \in E :
        /\ thrown' = [thrown EXCEPT ![i] = Thrown("fetch", err)]
        /\ Return(i, Caught(err))
    /\ UNCHANGED <<args, request, fetchCalls, response, textReads, text,
                   parseCalls>>

\* variant of FetchResolve: a non-success status is tried once more
FetchResolveRetry(i, R) ==
    /\ pc[i] = "awaitFetch"
    /\ \E res \in R :
        /\ response' = [response EXCEPT ![i] = res]
        /\ IF ~Ok(res) /\ fetchCalls[i] < 2
           THEN /\ fetchCalls' = [fetchCalls EXCEPT ![i] = @ + 1]
                /\ UNCHANGED <<pc, textReads, settled, result>>
           ELSE /\ UNCHANGED fetchCalls
                /\ IF ~Ok(res)
                   THEN /\ Return(i, HttpError(res))
                        /\ UNCHANGED textReads
                   ELSE /\ textReads' = [textReads EXCEPT ![i] = @ + 1]
                        /\ pc' = [pc EXCEPT ![i] = "awaitText"]
                        /\ UNCHANGED <<settled, result>>
    /\ UNCHANGED <<args, request, text, parseCalls, thrown>>

\* fetch resolves to a response, whatever its status
FetchResolve(i, R) ==
    /\ pc[i] = "awaitFetch"
    /\ \E res \in R :
        /\ response' = [response EXCEPT ![i] = res]
        /\ IF ~Ok(res)
           THEN /\ Return(i, HttpError(res))
                /\ UNCHANGED textReads
           ELSE /\ textReads' = [textReads EXCEPT ![i] = @ + 1]
                /\ pc' = [pc EXCEPT ![i] = "awaitText"]
                /\ UNCHANGED <<settled, result>>
    /\ UNCHANGED <<args, request, fetchCalls, text, parseCalls, thrown>>

\* res.text() rejects
TextReject(i, E) ==
    /\ pc[i] = "awaitText"
    /\ \E err \in E :
        /\ thrown' = [thrown EXCEPT ![i] = Thrown("text", err)]
        /\ Return(i, Caught(err))
    /\ UNCHANGED <<args, request, fetchCalls, response, textReads, text,
                   parseCalls>>

\* variant of TextResolve: an assessment already obtained for the same token
\* by another invocation is returned in place of the one just received
TextResolveCached(i, B) ==
    /\ pc[i] = "awaitText"
    /\ \E b \in B :
        /\ text' = [text EXCEPT ![i] = b]
        /\ LET hits == {j \in Calls \ {i} :
                            /\ pc[j] = "done"
                            /\ args[j].token = args[i].token
                            /\ ~HasKey(result[j], "error")}
           IN  IF hits # {}
               THEN /\ Return(i, Fulfilled(result[CHOOSE j \in hits : TRUE]))
                    /\ UNCHANGED parseCalls
               ELSE IF Falsy(b)
               THEN /\ Return(i, EmptyResponse)
                    /\ UNCHANGED parseCalls
               ELSE /\ parseCalls' = [parseCalls EXCEPT ![i] = @ + 1]
                    /\ Return(i, ParseOrInvalid(b))
    /\ UNCHANGED <<args, request, fetchCalls, response, textReads, thrown>>

\* res.text() resolves to the body
TextResolve(i, B) ==
    /\ pc[i] = "awaitText"
    /\ \E b \in B :
        /\ text' = [text EXCEPT ![i] = b]
        /\ IF Falsy(b)
           THEN /\ Return(i, EmptyResponse)
                /\ UNCHANGED parseCalls
           ELSE /\ parseCalls' = [parseCalls EXCEPT ![i] = @ + 1]
                /\ Return(i, ParseOrInvalid(b))
    /\ UNCHANGED <<args, request, fetchCalls, response, textReads, thrown>>

\* one invocation, over the whole of the input sets
Next ==
    \/ Invoke(1, ArgSets)
    \/ FetchReject(1, Errors)
    \/ FetchResolve(1, Responses)
    \/ TextReject(1, Errors)
    \/ TextResolve(1, Bodies)

Spec == Init /\ [][Next]_vars

\* NumCalls invocations, interleaved at their awaits, over small input sets
NextConc ==
    \E i \in Calls :
        \/ Invoke(i, SmallArgSets)
        \/ FetchReject(i, SmallErrors)
        \/ FetchResolve(i, SmallResponses)
        \/ TextReject(i, SmallErrors)
        \/ TextResolve(i, SmallBodies)

SpecConc == Init /\ [][NextConc]_vars

(* ----------------------------- properties ------------------------------ *)

\* the invocation i came back from a body that was read without a throw
ReadBody(i) == pc[i] = "done" /\ thrown[i].at = "none" /\ textReads[i] = 1

IsErrorShape(v) ==
    /\ v.kind = "obj"
    /\ Keys(v) = {"error"}
    /\ Get(v, "error").kind = "obj"
    /\ Keys(Get(v, "error")) = {"code", "message"}
    /\ Get(Get(v, "error"), "code").kind = "num"
    /\ Get(Get(v, "error"), "message").kind = "str"

IsSuccessShape(v) == v.kind = "obj" /\ ~HasKey(v, "error")

\* C1: whatever the transport does (fetch rejects, fetch resolves with any
\* status, res.text() throws, the body is empty or is not JSON), the promise
\* of an invocation is never rejected, and it is fulfilled once the
\* invocation is over.
C1_NeverRejects ==
    \A i \in Calls :
        /\ settled[i] # "rejected"
        /\ pc[i] = "done" => settled[i] = "fulfilled" /\ result[i] # Undefined

C1_Witness ==
    /\ pc[1] = "done"
    /\ thrown[1].at = "text"
    /\ settled[1] = "fulfilled"

\* C2: every returned value is a record of exactly one of the two shapes:
\* an `error` field {code, message} and no success field, or no `error`
\* field at all; never both, and never a value that is not a record.
C2_OneShape ==
    \A i \in Calls :
        pc[i] = "done" => IsErrorShape(result[i]) \/ IsSuccessShape(result[i])

\* C3: when fetch or res.text() throws, the result is the error shape with
\* code 500 and a non-empty message: the exception's message when it is an
\* Error with one, and the fallback message otherwise.
C3_TransportFailure ==
    \A i \in Calls :
        thrown[i].at # "none" =>
            /\ result[i] =
                 ErrorShape(500, IF thrown[i].isError /\ thrown[i].message # ""
                                 THEN thrown[i].message ELSE FallbackMessage)
            /\ Get(Get(result[i], "error"), "message").str # ""

\* C4: an invocation calls fetch exactly once on every path: it has done so
\* as soon as it is under way, and it never does so again.
C4_ExactlyOneFetch ==
    \A i \in Calls :
        /\ fetchCalls[i] <= 1
        /\ pc[i] # "idle" => fetchCalls[i] = 1

C4_Witness ==
    /\ pc[1] = "done"
    /\ response[1].status = 500
    /\ HasKey(result[1], "error")
    /\ fetchCalls[1] = 1

\* C5: for a response whose status is outside 200-299 the result is the error
\* shape with that status as its code and a message made from the status
\* text, and the body is neither read nor parsed.
C5_NonSuccessStatus ==
    \A i \in Calls :
        response[i] # NoResponse /\ response[i].status \notin 200..299 =>
            /\ pc[i] = "done"
            /\ result[i] = ErrorShape(response[i].status,
                                      "HTTP error: " \o response[i].statusText)
            /\ textReads[i] = 0
            /\ parseCalls[i] = 0

C5_Witness ==
    /\ pc[1] = "done"
    /\ response[1] = [status |-> 300, statusText |-> "Multiple Choices"]
    /\ result[1] = ErrorShape(300, "HTTP error: Multiple Choices")

\* C6: when the status is a success and the body is a text of a value v of
\* the success shape, the result is v itself: no field added, dropped,
\* renamed or defaulted, and no `error` field.
C6_SuccessIsParsedBody ==
    \A i \in Calls : \A f \in RenderedForms :
        ReadBody(i) /\ text[i] = f.t =>
            /\ result[i] = f.v
            /\ ~HasKey(result[i], "error")

C6_Witness ==
    /\ ReadBody(1)
    /\ args[1] = [token |-> "tok1", siteKey |-> "site1",
                  expectedAction |-> "login", api_token |-> "key1",
                  projectId |-> "proj1"]
    /\ text[1] = Pretty(JSONStringify(ScenarioValue))
    /\ Get(Get(result[1], "tokenProperties"), "valid") = JBool(TRUE)
    /\ Get(Get(result[1], "riskAnalysis"), "score") = JNumber(9)
    /\ Keys(result[1]) = {"tokenProperties", "riskAnalysis"}

\* C7: a success status with an empty body gives the error shape with code
\* 500, whatever the status was, and the fixed message for an empty
\* response; JSON.parse is not called.
C7_EmptyBody ==
    \A i \in Calls :
        ReadBody(i) /\ text[i] = <<>> =>
            /\ result[i] = ErrorShape(500, EmptyMessage)
            /\ parseCalls[i] = 0

C7_Witness ==
    /\ ReadBody(1)
    /\ response[1].status = 299
    /\ text[1] = <<>>
    /\ result[1] = ErrorShape(500, EmptyMessage)

\* a text that is not JSON: an unbalanced or misplaced token, or nothing but
\* white space
NotJSON(t) ==
    \/ t \in { <<LBad("not-json"), LBrace>>, <<Ws>>, <<Ws, Ws>>,
               <<LBrace>>, <<LBrace, RBrace, RBrace>>,
               <<LBracket, LNum("1"), Comma, RBracket>> }
    \/ t # <<>> /\ ~JSONParse(t).ok

\* C8: a success status with a non-empty body that is not JSON gives the
\* error shape with code 500 and the fixed message for invalid JSON, which
\* is not the text of the parser's exception.
C8_InvalidJSON ==
    \A i \in Calls :
        ReadBody(i) /\ NotJSON(text[i]) =>
            /\ result[i] = ErrorShape(500, InvalidJSONMessage)
            /\ Get(Get(result[i], "error"), "message").str # SyntaxError.message

C8_Witness ==
    /\ ReadBody(1)
    /\ text[1] = <<Ws>>
    /\ result[1] = ErrorShape(500, InvalidJSONMessage)

\* what the transport did for the invocation i
Transport(i) == <<response[i], textReads[i], text[i], thrown[i]>>

\* C9: invocations are independent: however they are interleaved, two that
\* were given the same inputs and met the same transport outcome have the
\* same result, whatever the others did.
C9_Independent ==
    \A i, j \in Calls :
        /\ pc[i] = "done"
        /\ pc[j] = "done"
        /\ args[i] = args[j]
        /\ Transport(i) = Transport(j)
        => /\ result[i] = result[j]
           /\ settled[i] = settled[j]

C9_Witness ==
    /\ \A i \in Calls : pc[i] = "done"
    /\ args[1] = args[2]
    /\ args[2] = args[3]
    /\ Transport(1) = Transport(2)
    /\ text[1] = <<LBad("not-json"), LBrace>>
    /\ text[3] = JSONStringify(ScenarioValue)
    /\ result[1] = result[2]
    /\ result[3] = ScenarioValue

\* C10: the request handed to fetch is a POST whose only header is
\* Content-Type: application/json, whose URL is the template with projectId
\* in the path and the credential as the `key` parameter, and whose body is
\* the JSON of one `event` object holding exactly token, siteKey and
\* expectedAction as they were given; the credential and the projectId are
\* not in the body.
C10_Request ==
    \A i \in Calls :
        pc[i] # "idle" =>
            /\ request[i].method = "POST"
            /\ request[i].headers = {<<"Content-Type", "application/json">>}
            /\ request[i].url =
                 "https://recaptchaenterprise.googleapis.com/v1/projects/"
                 \o args[i].projectId \o "/assessments?key="
                 \o args[i].api_token
            /\ JSONParse(request[i].body) =
                 [ok |-> TRUE,
                  val |-> JObject(<<Member("event",
                            JObject(<<Member("token", JString(args[i].token)),
                                      Member("siteKey",
                                             JString(args[i].siteKey)),
                                      Member("expectedAction",
                                             JString(args[i].expectedAction))
                                    >>))>>)]
            /\ \A n \in 1..Len(request[i].body) :
                 request[i].body[n].s \notin
                     {args[i].api_token, args[i].projectId}

C10_Witness ==
    /\ pc[1] = "awaitFetch"
    /\ args[1].token = ""
    /\ args[1].projectId = "a/b?c"
    /\ request[1].url =
         "https://recaptchaenterprise.googleapis.com/v1/projects/a/b?c/assessments?key=key1"

====
